---- MODULE Spec2Model ----
(***************************************************************************)
(* A model of the DVI loader facade (class dvifile, src/dviFile.h) and of  *)
(* the image rotation job (Okular::RotationJob, src/core/rotationjob.cpp). *)
(*                                                                         *)
(* The DVI file is modelled at the level of its commands: the buffer is a  *)
(* sequence of commands and an offset is the 0-based index of a command.   *)
(* dviFile.h declares the four load passes without their bodies; the       *)
(* passes follow sections 4.1 to 4.6 of the design document.  The widths   *)
(* of the fields, their values at construction and who changes them later  *)
(* are taken from dviFile.h and its comments.                              *)
(***************************************************************************)
EXTENDS Integers, Sequences, FiniteSets, TLC

VARIABLES
    buf,                      \* dvi_Data: the loaded command sequence
    sourceSpecialMark,        \* the constructor's argument of that name
    pc,                       \* position of the constructor in the load
    visible,                  \* the caller holds the constructed dvifile
    errorMsg,
    total_pages,
    page_offset,
    beginning_of_postamble,
    last_page_offset,
    tn_table,
    numerator, denominator, magnification,
    numberOfExternalPSFiles,
    prescan_is_performed,
    sourceSpecialMarker,
    errorCounter,
    anomalies,                \* number of tolerated anomalies reported so far
    noticesShown,             \* number of info dialogs the viewer has shown
    jobs                      \* the rotation jobs, by position of submission

dviVars == <<buf, sourceSpecialMark, pc, visible, errorMsg, total_pages,
             page_offset, beginning_of_postamble, last_page_offset, tn_table,
             numerator, denominator, magnification, numberOfExternalPSFiles,
             prescan_is_performed, sourceSpecialMarker, errorCounter,
             anomalies, noticesShown>>

vars == <<dviVars, jobs>>

(***************************************************************************)
(* Bounds of the model.                                                    *)
(***************************************************************************)
MaxPages == 2          \* pages of a generated document
MaxPad == 1            \* padding commands after the trailer: 1..MaxPad+1
MaxReports == 2        \* errors reported by the viewer after the load (Spec)
MaxAnomalies == 257    \* errors reported by the viewer (SpecCounter)
MaxJobs == 2           \* rotation jobs submitted

(***************************************************************************)
(* Widths of the integer fields of dvifile.                                *)
(***************************************************************************)
UINT8_MOD == 256
UINT16_MOD == 65536

(***************************************************************************)
(* The commands of a DVI file.                                             *)
(***************************************************************************)
Pre(n, d, m) == [op |-> "PRE", num |-> n, den |-> d, mag |-> m]
Bop(p) == [op |-> "BOP", prev |-> p]
Eop == [op |-> "EOP"]
Fnt(i) == [op |-> "FNT", id |-> i]
Xxx(k) == [op |-> "XXX", kind |-> k]
Post(l, n, d, m, t) ==
    [op |-> "POST", last |-> l, num |-> n, den |-> d, mag |-> m, pages |-> t]
FntDef(i, c) == [op |-> "FNTDEF", id |-> i, checksum |-> c]
PostPost(p) == [op |-> "POSTPOST", ptr |-> p]
Pad == [op |-> "PAD"]

\* the command at offset off of buffer b
At(b, off) == b[off + 1]
InBuffer(b, off) == off >= 0 /\ off < Len(b)

SetMax(S) == CHOOSE x \in S : \A y \in S : y <= x
BopOffsets(b) == {o \in 0..(Len(b) - 1) : At(b, o).op = "BOP"}
PostOffsets(b) == {o \in 0..(Len(b) - 1) : At(b, o).op = "POST"}
\* the offset of the page before the page at o, 0 for the first page
PrevBop(b, o) ==
    LET before == {q \in BopOffsets(b) : q < o}
    IN IF before = {} THEN 0 ELSE SetMax(before)

(***************************************************************************)
(* Generated input files: a well-formed file, and the defects of section 7 *)
(* and 8 applied to it.                                                    *)
(***************************************************************************)
RECURSIVE Pages(_, _, _)
Pages(contents, start, prev) ==
    IF contents = <<>> THEN <<>>
    ELSE LET pg == <<Bop(prev)>> \o Head(contents) \o <<Eop>>
         IN pg \o Pages(Tail(contents), start + Len(pg), start)

WellFormed(contents, fontdefs, pad) ==
    LET body == <<Pre(2, 3, 1)>> \o Pages(contents, 1, 0)
        bops == BopOffsets(body)
        last == IF bops = {} THEN 0 ELSE SetMax(bops)
    IN body \o <<Post(last, 2, 3, 1, Len(contents))>> \o fontdefs
            \o <<PostPost(Len(body))>> \o [i \in 1..pad |-> Pad]

PageContents ==
    { <<>>, <<Fnt(1)>>, <<Fnt(9)>>, <<Xxx("ps")>>, <<Xxx("src")>>,
      <<Xxx("bad")>>, <<Xxx("src"), Xxx("ps")>> }

FontDefs == { <<FntDef(1, 7)>>, <<FntDef(1, 7), FntDef(1, 8)>> }

Defects == { "none", "bad_pre_tag", "zero_den", "no_trailer", "post_ptr_oob",
             "post_ptr_tag", "units", "chain_oob", "chain_short",
             "chain_reversed" }

\* the chain of back-pointers reversed: the first page is named as the last
ReverseChain(b) ==
    LET bops == BopOffsets(b)
        NextBop(o) == LET after == {q \in bops : q > o}
                      IN IF after = {} THEN 0
                         ELSE CHOOSE x \in after : \A y \in after : x <= y
    IN [i \in 1..Len(b) |->
          IF b[i].op = "BOP" THEN Bop(NextBop(i - 1))
          ELSE IF b[i].op = "POST" /\ bops # {}
               THEN [b[i] EXCEPT !.last =
                        CHOOSE x \in bops : \A y \in bops : x <= y]
               ELSE b[i]]

Damage(b, defect) ==
    LET po == SetMax(PostOffsets(b))
        pp == SetMax({o \in 0..(Len(b) - 1) : At(b, o).op = "POSTPOST"})
    IN CASE defect = "none" -> b
         [] defect = "bad_pre_tag" -> [b EXCEPT ![1] = Eop]
         [] defect = "zero_den" -> [b EXCEPT ![1] = Pre(1, 0, 1)]
         [] defect = "no_trailer" -> SubSeq(b, 1, pp)
         [] defect = "post_ptr_oob" ->
                [b EXCEPT ![pp + 1] = PostPost(Len(b) + 1)]
         [] defect = "post_ptr_tag" -> [b EXCEPT ![pp + 1] = PostPost(0)]
         [] defect = "units" -> [b EXCEPT ![po + 1].num = 5]
         [] defect = "chain_oob" ->
                IF BopOffsets(b) = {} THEN [b EXCEPT ![po + 1].last = Len(b) + 3]
                ELSE [b EXCEPT ![SetMax(BopOffsets(b)) + 1].prev = Len(b) + 3]
         [] defect = "chain_short" ->
                [b EXCEPT ![po + 1].pages = b[po + 1].pages + 1]
         [] defect = "chain_reversed" -> ReverseChain(b)

RECURSIVE SeqsUpTo(_, _)
SeqsUpTo(S, n) ==
    IF n = 0 THEN {<<>>}
    ELSE LET shorter == SeqsUpTo(S, n - 1)
         IN shorter \cup {<<x>> \o s : x \in S, s \in {t \in shorter : Len(t) = n - 1}}

InputFiles ==
    { Damage(WellFormed(c, f, p), d) :
        c \in SeqsUpTo(PageContents, MaxPages), f \in FontDefs,
        p \in 1..(MaxPad + 1), d \in Defects }

(***************************************************************************)
(* A valid DVI buffer: preamble first, every page pointing back at the     *)
(* page before it, the postamble naming the last page and the number of    *)
(* pages, the trailer pointing at the postamble and followed by padding.   *)
(***************************************************************************)
NumPages(b) == Cardinality(BopOffsets(b))

ValidDvi(b) ==
    /\ Len(b) >= 4
    /\ b[1].op = "PRE" /\ b[1].num # 0 /\ b[1].den # 0
    /\ Cardinality(PostOffsets(b)) = 1
    /\ LET po == SetMax(PostOffsets(b))
           post == At(b, po)
           bops == BopOffsets(b)
       IN /\ post.num = b[1].num /\ post.den = b[1].den /\ post.mag = b[1].mag
          /\ post.pages = Cardinality(bops)
          /\ post.last = (IF bops = {} THEN 0 ELSE SetMax(bops))
          /\ \A o \in bops : o < po /\ At(b, o).prev = PrevBop(b, o)
          /\ \E pp \in (po + 1)..(Len(b) - 2) :
                /\ At(b, pp).op = "POSTPOST" /\ At(b, pp).ptr = po
                /\ \A o \in (po + 1)..(pp - 1) : At(b, o).op = "FNTDEF"
                /\ \A o \in (pp + 1)..(Len(b) - 1) : At(b, o).op = "PAD"

(***************************************************************************)
(* The load passes (sections 4.1 to 4.5).  Each pass is a function of the  *)
(* buffer and of what the passes before it stored; err is "" on success.   *)
(***************************************************************************)
NoError == ""

\* 4.1: the preamble tag, then numerator, denominator and magnification
process_preamble(b) ==
    IF Len(b) = 0 \/ At(b, 0).op # "PRE"
    THEN [err |-> "MalformedHeader"]
    ELSE IF At(b, 0).num = 0 \/ At(b, 0).den = 0
    THEN [err |-> "MalformedHeader"]
    ELSE [err |-> NoError, num |-> At(b, 0).num, den |-> At(b, 0).den,
          mag |-> At(b, 0).mag]

\* 4.2: backward over the padding; off is the offset being looked at
RECURSIVE SkipPadding(_, _)
SkipPadding(b, off) ==
    IF off < 0 THEN off
    ELSE IF At(b, off).op = "PAD" THEN SkipPadding(b, off - 1)
    ELSE off

find_postamble(b) ==
    LET pp == SkipPadding(b, Len(b) - 1)
    IN IF pp < 0 \/ pp = Len(b) - 1 \/ At(b, pp).op # "POSTPOST"
       THEN [err |-> "TruncatedFile"]
       ELSE IF ~InBuffer(b, At(b, pp).ptr)
       THEN [err |-> "CorruptPostamble"]
       ELSE IF At(b, At(b, pp).ptr).op # "POST"
       THEN [err |-> "CorruptPostamble"]
       ELSE [err |-> NoError, post |-> At(b, pp).ptr]

\* 4.4: one font definition; the first definition of an id is kept
InsertFont(table, def) ==
    IF def.id \in DOMAIN table
    THEN [table |-> table,
          errs |-> IF table[def.id].checksum # def.checksum THEN 1 ELSE 0]
    ELSE [table |-> (def.id :> [checksum |-> def.checksum, placeholder |-> FALSE])
                        @@ table,
          errs |-> 0]

\* 4.3: the font definitions from offset off up to the end of the postamble
RECURSIVE ReadFontDefs(_, _, _, _)
ReadFontDefs(b, off, table, errs) ==
    IF ~InBuffer(b, off) THEN [err |-> "CorruptPostamble"]
    ELSE IF At(b, off).op = "POSTPOST"
    THEN [err |-> NoError, table |-> table, errs |-> errs]
    ELSE IF At(b, off).op = "FNTDEF"
    THEN LET r == InsertFont(table, At(b, off))
         IN ReadFontDefs(b, off + 1, r.table, errs + r.errs)
    ELSE [err |-> "CorruptPostamble"]

read_postamble(b, post, num, den, mag) ==
    LET p == At(b, post)
    IN IF p.num # num \/ p.den # den THEN [err |-> "InconsistentUnits"]
       ELSE IF p.mag # mag THEN [err |-> "InconsistentUnits"]
       ELSE LET f == ReadFontDefs(b, post + 1, <<>>, 0)
            IN IF f.err # NoError THEN [err |-> f.err]
               ELSE [err |-> NoError, last |-> p.last,
                     pages |-> p.pages % UINT16_MOD,
                     table |-> f.table, errs |-> f.errs]

\* the chain stored in the order it is walked, last page first
RECURSIVE ChaseLastFirst(_, _, _)
ChaseLastFirst(b, cur, k) ==
    IF k = 0
    THEN [ok |-> cur = 0, offs |-> <<>>]
    ELSE IF ~InBuffer(b, cur) THEN [ok |-> FALSE, offs |-> <<>>]
    ELSE IF At(b, cur).op # "BOP" THEN [ok |-> FALSE, offs |-> <<>>]
    ELSE LET r == ChaseLastFirst(b, At(b, cur).prev, k - 1)
         IN [ok |-> r.ok, offs |-> <<cur>> \o r.offs]

\* 4.5: the back-pointer chain, k pages still to find, ending at offset 0
RECURSIVE Chase(_, _, _)
Chase(b, cur, k) ==
    IF k = 0
    THEN [ok |-> cur = 0, offs |-> <<>>]
    ELSE IF ~InBuffer(b, cur) THEN [ok |-> FALSE, offs |-> <<>>]
    ELSE IF At(b, cur).op # "BOP" THEN [ok |-> FALSE, offs |-> <<>>]
    ELSE LET r == Chase(b, At(b, cur).prev, k - 1)
         IN [ok |-> r.ok, offs |-> r.offs \o <<cur>>]

\* the commands of the page that begins at offset off, without BOP and EOP
RECURSIVE PageBody(_, _)
PageBody(b, off) ==
    IF ~InBuffer(b, off) THEN <<>>
    ELSE IF At(b, off).op \in {"EOP", "BOP", "POST"} THEN <<>>
    ELSE <<At(b, off)>> \o PageBody(b, off + 1)

\* 4.5 (a): the content scan of one page for undefined fonts and malformed
\* specials
RECURSIVE ScanPage(_, _, _)
ScanPage(cmds, table, errs) ==
    IF cmds = <<>> THEN [table |-> table, errs |-> errs]
    ELSE LET c == Head(cmds)
         IN IF c.op = "FNT" /\ c.id \notin DOMAIN table
            THEN ScanPage(Tail(cmds),
                          (c.id :> [checksum |-> 0, placeholder |-> TRUE]) @@ table,
                          errs + 1)
            ELSE IF c.op = "XXX" /\ c.kind = "bad"
            THEN ScanPage(Tail(cmds), table, errs + 1)
            ELSE ScanPage(Tail(cmds), table, errs)

RECURSIVE ScanPages(_, _, _, _)
ScanPages(b, offs, table, errs) ==
    IF offs = <<>> THEN [table |-> table, errs |-> errs]
    ELSE LET r == ScanPage(PageBody(b, Head(offs) + 1), table, errs)
         IN ScanPages(b, Tail(offs), r.table, r.errs)

prepare_pages(b, last, pages, table) ==
    LET chain == Chase(b, last, pages)
    IN IF ~chain.ok THEN [err |-> "CorruptPage"]
       ELSE LET s == ScanPages(b, chain.offs, table, 0)
            IN [err |-> NoError, offs |-> chain.offs, table |-> s.table,
                errs |-> s.errs]

(***************************************************************************)
(* The dvifile constructor and what the viewer does with a loaded file.    *)
(***************************************************************************)
NoTable == <<>>

\* a constructor that leaves the flag cleared until a marker is met
MarkerCleared(mark) == FALSE

\* the value the constructor gives sourceSpecialMarker
ConstructedMarker(mark) == mark

\* the fields as the constructor sets them before the first pass
Init ==
    /\ buf \in InputFiles
    /\ sourceSpecialMark \in BOOLEAN
    /\ pc = "preamble"
    /\ visible = FALSE
    /\ errorMsg = NoError
    /\ total_pages = 0
    /\ page_offset = <<>>
    /\ beginning_of_postamble = 0
    /\ last_page_offset = 0
    /\ tn_table = NoTable
    /\ numerator = 0 /\ denominator = 0 /\ magnification = 0
    /\ numberOfExternalPSFiles = 0
    /\ prescan_is_performed = FALSE
    /\ sourceSpecialMarker = ConstructedMarker(sourceSpecialMark)
    /\ errorCounter = 0
    /\ anomalies = 0
    /\ noticesShown = 0
    /\ jobs = <<>>

\* a hard error that still returns the object, as far as it was built
AbortKeepsObject(err) ==
    /\ pc' = "failed"
    /\ errorMsg' = err
    /\ visible' = TRUE
    /\ UNCHANGED <<buf, sourceSpecialMark, total_pages, page_offset,
                   beginning_of_postamble, last_page_offset, tn_table,
                   numerator, denominator, magnification,
                   numberOfExternalPSFiles, prescan_is_performed,
                   sourceSpecialMarker, errorCounter, anomalies, noticesShown,
                   jobs>>

\* a hard error: the load ends, what was built is dropped, nothing is handed out
Abort(err) ==
    /\ pc' = "failed"
    /\ errorMsg' = err
    /\ visible' = FALSE
    /\ total_pages' = 0
    /\ page_offset' = <<>>
    /\ tn_table' = NoTable
    /\ beginning_of_postamble' = 0
    /\ last_page_offset' = 0
    /\ numerator' = 0 /\ denominator' = 0 /\ magnification' = 0
    /\ errorCounter' = 0
    /\ anomalies' = 0
    /\ UNCHANGED <<buf, sourceSpecialMark, numberOfExternalPSFiles,
                   prescan_is_performed, sourceSpecialMarker, noticesShown,
                   jobs>>

\* n tolerated anomalies met during a pass
Count(n) ==
    /\ errorCounter' = (errorCounter + n) % UINT8_MOD
    /\ anomalies' = anomalies + n

ProcessPreamble ==
    /\ pc = "preamble"
    /\ LET r == process_preamble(buf)
       IN IF r.err # NoError THEN Abort(r.err)
          ELSE /\ numerator' = r.num
               /\ denominator' = r.den
               /\ magnification' = r.mag
               /\ pc' = "find_postamble"
               /\ UNCHANGED <<buf, sourceSpecialMark, visible, errorMsg,
                              total_pages, page_offset, beginning_of_postamble,
                              last_page_offset, tn_table,
                              numberOfExternalPSFiles, prescan_is_performed,
                              sourceSpecialMarker, errorCounter, anomalies,
                              noticesShown, jobs>>

FindPostamble ==
    /\ pc = "find_postamble"
    /\ LET r == find_postamble(buf)
       IN IF r.err # NoError THEN Abort(r.err)
          ELSE /\ beginning_of_postamble' = r.post
               /\ pc' = "read_postamble"
               /\ UNCHANGED <<buf, sourceSpecialMark, visible, errorMsg,
                              total_pages, page_offset, last_page_offset,
                              tn_table, numerator, denominator, magnification,
                              numberOfExternalPSFiles, prescan_is_performed,
                              sourceSpecialMarker, errorCounter, anomalies,
                              noticesShown, jobs>>

ReadPostamble ==
    /\ pc = "read_postamble"
    /\ LET r == read_postamble(buf, beginning_of_postamble, numerator,
                               denominator, magnification)
       IN IF r.err # NoError THEN Abort(r.err)
          ELSE /\ last_page_offset' = r.last
               /\ total_pages' = r.pages
               /\ tn_table' = r.table
               /\ Count(r.errs)
               /\ pc' = "prepare_pages"
               /\ UNCHANGED <<buf, sourceSpecialMark, visible, errorMsg,
                              page_offset, beginning_of_postamble, numerator,
                              denominator, magnification,
                              numberOfExternalPSFiles, prescan_is_performed,
                              sourceSpecialMarker, noticesShown, jobs>>

\* the last pass; when it succeeds the constructor returns the dvifile
PreparePages ==
    /\ pc = "prepare_pages"
    /\ LET r == prepare_pages(buf, last_page_offset, total_pages, tn_table)
       IN IF r.err # NoError THEN Abort(r.err)
          ELSE /\ page_offset' = r.offs
               /\ tn_table' = r.table
               /\ Count(r.errs)
               /\ pc' = "done"
               /\ visible' = TRUE
               /\ UNCHANGED <<buf, sourceSpecialMark, errorMsg, total_pages,
                              beginning_of_postamble, last_page_offset,
                              numerator, denominator, magnification,
                              numberOfExternalPSFiles, prescan_is_performed,
                              sourceSpecialMarker, noticesShown, jobs>>

\* the commands of page p (0-based) of the loaded file
PageCommands(p) == PageBody(buf, page_offset[p + 1] + 1)
HasSpecial(p, kind) ==
    \E i \in 1..Len(PageCommands(p)) :
        PageCommands(p)[i].op = "XXX" /\ PageCommands(p)[i].kind = kind
HasSourceSpecial(p) == HasSpecial(p, "src")
PageIndices == 0..(Len(page_offset) - 1)

\* a prescan that stores its count in the page count
PrescanIntoPages ==
    /\ visible
    /\ ~prescan_is_performed
    /\ total_pages' =
          Cardinality({p \in PageIndices : HasSpecial(p, "ps")}) % UINT16_MOD
    /\ prescan_is_performed' = TRUE
    /\ UNCHANGED <<buf, sourceSpecialMark, pc, visible, errorMsg,
                   numberOfExternalPSFiles, page_offset,
                   beginning_of_postamble, last_page_offset, tn_table,
                   numerator, denominator, magnification, sourceSpecialMarker,
                   errorCounter, anomalies, noticesShown, jobs>>

\* the prescan phase of the viewer: it counts the PostScript inclusions
Prescan ==
    /\ visible
    /\ ~prescan_is_performed
    /\ numberOfExternalPSFiles' =
          Cardinality({p \in PageIndices : HasSpecial(p, "ps")}) % UINT16_MOD
    /\ prescan_is_performed' = TRUE
    /\ UNCHANGED <<buf, sourceSpecialMark, pc, visible, errorMsg, total_pages,
                   page_offset, beginning_of_postamble, last_page_offset,
                   tn_table, numerator, denominator, magnification,
                   sourceSpecialMarker, errorCounter, anomalies, noticesShown,
                   jobs>>

\* a render that shows the dialog and leaves the flag set
RenderKeepsFlag(p) ==
    /\ visible
    /\ p \in PageIndices
    /\ IF HasSourceSpecial(p) /\ sourceSpecialMarker
       THEN noticesShown' = noticesShown + 1
       ELSE UNCHANGED noticesShown
    /\ UNCHANGED <<buf, sourceSpecialMark, pc, visible, errorMsg, total_pages,
                   page_offset, beginning_of_postamble, last_page_offset,
                   tn_table, numerator, denominator, magnification,
                   numberOfExternalPSFiles, prescan_is_performed,
                   sourceSpecialMarker, errorCounter, anomalies, jobs>>

\* the viewer renders page p: the first page with source specials raises the
\* info dialog and takes the flag
Render(p) ==
    /\ visible
    /\ p \in PageIndices
    /\ IF HasSourceSpecial(p) /\ sourceSpecialMarker
       THEN /\ noticesShown' = noticesShown + 1
            /\ sourceSpecialMarker' = FALSE
       ELSE UNCHANGED <<noticesShown, sourceSpecialMarker>>
    /\ UNCHANGED <<buf, sourceSpecialMark, pc, visible, errorMsg, total_pages,
                   page_offset, beginning_of_postamble, last_page_offset,
                   tn_table, numerator, denominator, magnification,
                   numberOfExternalPSFiles, prescan_is_performed, errorCounter,
                   anomalies, jobs>>

\* other software counts an error message it printed for this file
ReportError(limit) ==
    /\ visible
    /\ anomalies < limit
    /\ Count(1)
    /\ UNCHANGED <<buf, sourceSpecialMark, pc, visible, errorMsg, total_pages,
                   page_offset, beginning_of_postamble, last_page_offset,
                   tn_table, numerator, denominator, magnification,
                   numberOfExternalPSFiles, prescan_is_performed,
                   sourceSpecialMarker, noticesShown, jobs>>

Load == ProcessPreamble \/ FindPostamble \/ ReadPostamble \/ PreparePages

Next ==
    \/ Load
    \/ Prescan
    \/ \E p \in 0..(MaxPages + 1) : Render(p)
    \/ ReportError(MaxReports)

Spec == Init /\ [][Next]_vars

(***************************************************************************)
(* The counting of error messages on one loaded file, past the width of    *)
(* errorCounter.                                                           *)
(***************************************************************************)
CounterFiles ==
    { WellFormed(<<c>>, f, 1) : c \in PageContents, f \in FontDefs }

InitCounter == Init /\ buf \in CounterFiles

NextCounter ==
    \/ Load
    \/ ReportError(MaxAnomalies)

SpecCounter == InitCounter /\ [][NextCounter]_vars

(***************************************************************************)
(* QImage and QMatrix, as far as RotationJob uses them.  An image is a     *)
(* sequence of rows of pixels; a matrix holds m11, m12, m21, m22 (the      *)
(* rotations by multiples of 90 degrees have integer entries).             *)
(***************************************************************************)
NullImage == <<>>
Height(img) == Len(img)
Width(img) == IF Len(img) = 0 THEN 0 ELSE Len(img[1])

Identity == [m11 |-> 1, m12 |-> 0, m21 |-> 0, m22 |-> 1]

Cos(a) == CASE a = 0 -> 1 [] a = 90 -> 0 [] a = 180 -> -1 [] a = 270 -> 0
Sin(a) == CASE a = 0 -> 0 [] a = 90 -> 1 [] a = 180 -> 0 [] a = 270 -> -1

\* QMatrix::rotate( a ): the rotation by a degrees, applied before m
rotate(m, a) ==
    [m11 |-> Cos(a) * m.m11 + Sin(a) * m.m21,
     m12 |-> Cos(a) * m.m12 + Sin(a) * m.m22,
     m21 |-> Cos(a) * m.m21 - Sin(a) * m.m11,
     m22 |-> Cos(a) * m.m22 - Sin(a) * m.m12]

\* QMatrix::map: where the matrix sends the point (x, y)
MapX(m, x, y) == m.m11 * x + m.m21 * y
MapY(m, x, y) == m.m12 * x + m.m22 * y

SetMin(S) == CHOOSE x \in S : \A y \in S : x <= y

\* QImage::transformed( matrix ): every pixel is moved to where the matrix
\* sends it, and the result is the bounding rectangle of the moved pixels
transformed(img, m) ==
    IF img = NullImage THEN NullImage
    ELSE LET pts == (0..(Width(img) - 1)) \X (0..(Height(img) - 1))
             xs == {MapX(m, q[1], q[2]) : q \in pts}
             ys == {MapY(m, q[1], q[2]) : q \in pts}
             x0 == SetMin(xs)
             y0 == SetMin(ys)
             Source(c, r) ==
                 CHOOSE q \in pts : /\ MapX(m, q[1], q[2]) = c + x0
                                    /\ MapY(m, q[1], q[2]) = r + y0
         IN [r \in 1..Cardinality(ys) |->
              [c \in 1..Cardinality(xs) |->
                 img[Source(c - 1, r - 1)[2] + 1][Source(c - 1, r - 1)[1] + 1]]]

(***************************************************************************)
(* Okular::RotationJob                                                     *)
(***************************************************************************)
Rotations == {"Rotation0", "Rotation90", "Rotation180", "Rotation270"}

\* RotationJob::RotationJob
RotationJob(image, oldRotation, newRotation, id) ==
    [mImage |-> image, mOldRotation |-> oldRotation,
     mNewRotation |-> newRotation, mId |-> id,
     mRotatedImage |-> NullImage,
     calls |-> <<>>,         \* the angles run() has passed to matrix.rotate
     transforms |-> 0,       \* the calls of mImage.transformed by run()
     finished |-> FALSE,     \* run() has returned
     input |-> 0]            \* the job whose result is this job's image, or 0

\* the accessors
image(job) == job.mRotatedImage
rotation(job) == job.mNewRotation
id(job) == job.mId

\* the orientation an enumerator of Rotation names, in degrees
Degrees(r) ==
    CASE r = "Rotation0" -> 0 [] r = "Rotation90" -> 90
      [] r = "Rotation180" -> 180 [] r = "Rotation270" -> 270

\* the angle taken as the absolute difference of the two orientations
RunAnglesForward(old, new) ==
    LET d == Degrees(new) - Degrees(old)
    IN IF d = 0 THEN <<>> ELSE IF d < 0 THEN <<0 - d>> ELSE <<d>>

\* run(): the angles passed to matrix.rotate for the two orientations
RunAngles(old, new) ==
    IF old = "Rotation0"
    THEN IF new = "Rotation90" THEN <<90>>
         ELSE IF new = "Rotation180" THEN <<180>>
         ELSE IF new = "Rotation270" THEN <<270>>
         ELSE <<>>
    ELSE IF old = "Rotation90"
    THEN IF new = "Rotation180" THEN <<90>>
         ELSE IF new = "Rotation270" THEN <<180>>
         ELSE IF new = "Rotation0" THEN <<270>>
         ELSE <<>>
    ELSE IF old = "Rotation180"
    THEN IF new = "Rotation270" THEN <<90>>
         ELSE IF new = "Rotation0" THEN <<180>>
         ELSE IF new = "Rotation90" THEN <<270>>
         ELSE <<>>
    ELSE IF old = "Rotation270"
    THEN IF new = "Rotation0" THEN <<90>>
         ELSE IF new = "Rotation90" THEN <<180>>
         ELSE IF new = "Rotation180" THEN <<270>>
         ELSE <<>>
    ELSE <<>>

RECURSIVE MatrixOf(_)
MatrixOf(angles) ==
    IF angles = <<>> THEN Identity
    ELSE rotate(MatrixOf(Tail(angles)), Head(angles))

\* run() without the return of line 42
runFallThrough(job) ==
    LET angles == IF job.mOldRotation = job.mNewRotation THEN <<>>
                  ELSE RunAngles(job.mOldRotation, job.mNewRotation)
    IN [job EXCEPT !.calls = angles,
                   !.mRotatedImage = transformed(job.mImage, MatrixOf(angles)),
                   !.transforms = 1,
                   !.finished = TRUE]

\* run() turning by the target orientation, whatever the current one is
runAbsolute(job) ==
    IF job.mOldRotation = job.mNewRotation
    THEN [job EXCEPT !.mRotatedImage = job.mImage, !.finished = TRUE]
    ELSE LET angles == RunAngles("Rotation0", job.mNewRotation)
         IN [job EXCEPT !.calls = angles,
                        !.mRotatedImage = transformed(job.mImage, MatrixOf(angles)),
                        !.transforms = 1,
                        !.finished = TRUE]

\* RotationJob::run on one job
run(job) ==
    IF job.mOldRotation = job.mNewRotation
    THEN [job EXCEPT !.mRotatedImage = job.mImage, !.finished = TRUE]
    ELSE LET angles == RunAngles(job.mOldRotation, job.mNewRotation)
         IN [job EXCEPT !.calls = angles,
                        !.mRotatedImage = transformed(job.mImage, MatrixOf(angles)),
                        !.transforms = 1,
                        !.finished = TRUE]

InputImages == { <<<<0, 1>>>>, <<<<0, 1>>, <<2, 3>>>> }

\* the caller numbers its requests
RequestId == 10 + Len(jobs)

\* a request for an image of the caller
Submit ==
    /\ Len(jobs) < MaxJobs
    /\ \E img \in InputImages, old \in Rotations, new \in Rotations :
          jobs' = Append(jobs, RotationJob(img, old, new, RequestId))
    /\ UNCHANGED dviVars

\* a request for the image a finished job has produced
SubmitResult ==
    /\ Len(jobs) < MaxJobs
    /\ \E k \in 1..Len(jobs), old \in Rotations, new \in Rotations :
          /\ jobs[k].finished
          /\ jobs' = Append(jobs,
                [RotationJob(image(jobs[k]), old, new, RequestId)
                    EXCEPT !.input = k])
    /\ UNCHANGED dviVars

\* a worker that rotates the job's image in place
RunInPlace(j) ==
    /\ j \in 1..Len(jobs)
    /\ ~jobs[j].finished
    /\ jobs' = [jobs EXCEPT ![j] =
                  [run(jobs[j]) EXCEPT !.mImage = run(jobs[j]).mRotatedImage]]
    /\ UNCHANGED dviVars

\* a worker of the pool runs job j
Run(j) ==
    /\ j \in 1..Len(jobs)
    /\ ~jobs[j].finished
    /\ jobs' = [jobs EXCEPT ![j] = run(jobs[j])]
    /\ UNCHANGED dviVars

InitRot == Init /\ buf = WellFormed(<<>>, <<FntDef(1, 7)>>, 1) /\ sourceSpecialMark

NextRot ==
    \/ Submit
    \/ SubmitResult
    \/ \E j \in 1..MaxJobs : Run(j)

SpecRot == InitRot /\ [][NextRot]_vars

(***************************************************************************)
(* The properties.                                                         *)
(***************************************************************************)
HardErrors == {"MalformedHeader", "TruncatedFile", "CorruptPostamble",
               "InconsistentUnits", "CorruptPage"}

\* C1: a valid DVI buffer with N pages, once loaded, has total_pages = N and
\* a page offset table of N entries, in file order, strictly increasing and
\* inside the buffer.
C1_PageTable ==
    (visible /\ ValidDvi(buf)) =>
        /\ total_pages = NumPages(buf)
        /\ Len(page_offset) = total_pages
        /\ \A i \in 1..(Len(page_offset) - 1) : page_offset[i] < page_offset[i + 1]
        /\ \A i \in 1..Len(page_offset) :
              /\ page_offset[i] < Len(buf)
              /\ page_offset[i] \in BopOffsets(buf)
              /\ Cardinality({o \in BopOffsets(buf) : o < page_offset[i]}) = i - 1

C1_Witness ==
    /\ visible /\ ValidDvi(buf)
    /\ NumPages(buf) = 2
    /\ Len(page_offset) = 2

C5_NoticeAtMostOnce ==
    /\ noticesShown <= 1
    /\ noticesShown = 1 => ~sourceSpecialMarker

C5_Witness ==
    /\ noticesShown = 1
    /\ Len(page_offset) = 2
    /\ \A p \in PageIndices : HasSourceSpecial(p)

TurnCW(img) ==
    [r \in 1..Width(img) |->
        [c \in 1..Height(img) |-> img[Height(img) - c + 1][r]]]
RotateBy(img, a) ==
    CASE a = 0 -> img
      [] a = 90 -> TurnCW(img)
      [] a = 180 -> TurnCW(TurnCW(img))
      [] a = 270 -> TurnCW(TurnCW(TurnCW(img)))

\* the angle from the current to the target orientation of a job
Delta(job) == (Degrees(job.mNewRotation) - Degrees(job.mOldRotation)) % 360
RECURSIVE Sum(_)
Sum(angles) == IF angles = <<>> THEN 0 ELSE Head(angles) + Sum(Tail(angles))
Finished == {j \in 1..Len(jobs) : jobs[j].finished}

\* C6: a job whose current and target orientation are equal returns its
\* input image and applies no transform.
C6_SameOrientationIdentity ==
    \A j \in Finished :
        jobs[j].mOldRotation = jobs[j].mNewRotation =>
            /\ image(jobs[j]) = jobs[j].mImage
            /\ jobs[j].calls = <<>>
            /\ jobs[j].transforms = 0

C6_Witness ==
    \E j \in Finished :
        /\ jobs[j].mOldRotation = "Rotation270"
        /\ jobs[j].mNewRotation = "Rotation270"
        /\ image(jobs[j]) = <<<<0, 1>>, <<2, 3>>>>

\* C7: a turn by 90 and a turn by 270 degrees, one applied to the result of
\* the other, give back the original image, and the angles add up to 0
\* modulo 360.
C7_QuarterTurnsCompose ==
    \A j \in Finished, k \in Finished :
        (jobs[k].input = j /\ {Delta(jobs[j]), Delta(jobs[k])} = {90, 270}) =>
            /\ image(jobs[k]) = jobs[j].mImage
            /\ (Sum(jobs[j].calls) + Sum(jobs[k].calls)) % 360 = 0

C7_Witness ==
    \E j \in Finished, k \in Finished :
        /\ jobs[k].input = j
        /\ Delta(jobs[j]) = 270 /\ Delta(jobs[k]) = 90
        /\ jobs[j].mImage = <<<<0, 1>>>>
        /\ image(jobs[j]) # jobs[j].mImage
        /\ image(jobs[k]) = jobs[j].mImage

\* C8: no step changes the id, the input image or the orientations of a
\* job, and the result of a finished job is its own input image turned from
\* its own current to its own target orientation.
C8_JobKeepsRequest ==
    [][\A j \in 1..Len(jobs) :
          /\ id(jobs'[j]) = id(jobs[j])
          /\ jobs'[j].mImage = jobs[j].mImage
          /\ jobs'[j].mOldRotation = jobs[j].mOldRotation
          /\ jobs'[j].mNewRotation = jobs[j].mNewRotation
          /\ jobs'[j].finished =>
                image(jobs'[j]) = RotateBy(jobs[j].mImage, Delta(jobs[j]))]_vars

C8_Witness ==
    /\ Len(jobs) = 2
    /\ ~jobs[1].finished /\ jobs[2].finished
    /\ id(jobs[1]) # id(jobs[2])
    /\ jobs[1].mImage # jobs[2].mImage
    /\ image(jobs[2]) # jobs[2].mImage

\* C9: a job whose orientations differ turns its image by the target minus
\* the current orientation modulo 360, and the current orientation plus the
\* applied angle is, modulo 360, the orientation rotation() reports.
C9_RotatesByDifference ==
    \A j \in Finished :
        jobs[j].mOldRotation # jobs[j].mNewRotation =>
            /\ jobs[j].calls = <<Delta(jobs[j])>>
            /\ jobs[j].transforms = 1
            /\ image(jobs[j]) = RotateBy(jobs[j].mImage, Delta(jobs[j]))
            /\ (Degrees(jobs[j].mOldRotation) + Sum(jobs[j].calls)) % 360
                  = Degrees(rotation(jobs[j]))

C9_Witness ==
    \E j \in Finished :
        /\ jobs[j].mOldRotation = "Rotation270"
        /\ jobs[j].mNewRotation = "Rotation90"
        /\ jobs[j].mImage = <<<<0, 1>>, <<2, 3>>>>
        /\ image(jobs[j]) = <<<<3, 2>>, <<1, 0>>>>

====
